---- MODULE Spec2Model ----
(***************************************************************************)
(* Batting-order and at-bat scorekeeping page (Home component).            *)
(*                                                                         *)
(* A text is a sequence of characters; each character is a one-element     *)
(* string.  ASCII characters stand for themselves, every other character   *)
(* is written as its code point: "U5B89" is the kanji of the generic hit   *)
(* token, "U3000" the ideographic space.  A JavaScript `undefined` is a    *)
(* value of its own (Undefined, UndefinedStats, UndefinedPlayer), so that  *)
(* a missing array slot, a missing mapping key and a key holding           *)
(* `undefined` are all told apart from an empty text or a zero record.     *)
(***************************************************************************)
EXTENDS Integers, Sequences, FiniteSets, TLC

VARIABLES
  players,         \* useState<Player[]>: the batting order
  gameState,       \* useState<GameState>: inning, isTopHalf, currentBatterIndex, battingStats
  selectedPlayer,  \* useState<number | null>: first click of a click-to-swap
  loading,         \* useState(true)
  dataId,          \* useState<string | null>: id of the persisted row
  db,              \* the single row of table order_data
  crashed,         \* the render threw: the component tree is gone
  nextUid,         \* identity of the next Player object created
  ledger,          \* history: the stats each Player object has accumulated
  edits,           \* history: number of updateBattingResult calls so far
  lastOp,          \* history: the name of the handler that ran last
  call,            \* a call of a pure function: its arguments and its result
  clients,         \* the browsers that share the persisted row: the state of each Home
  inbox,           \* per browser, the postgres_changes payloads not yet delivered
  now              \* Date.now()

vars == <<players, gameState, selectedPlayer, loading, dataId, db, crashed,
          nextUid, ledger, edits, lastOp, call, clients, inbox, now>>

(***************************************************************************)
(* Bounds of the model.                                                    *)
(***************************************************************************)
MaxPlayers == 3
MaxEdits == 2

(***************************************************************************)
(* JavaScript values.                                                      *)
(***************************************************************************)
Null == -1
Undefined == <<"undefined">>
JsonNull == <<"null">>
UndefinedStats == [undefined |-> TRUE]
UndefinedPlayer == [undefined |-> TRUE]
TypeError == [error |-> "TypeError"]

Max(a, b) == IF a >= b THEN a ELSE b

\* a[i] of a JavaScript array (0-based); a hole or an index past the end reads undefined
ArrayGet(a, i, undef) == IF i >= 0 /\ i + 1 <= Len(a) THEN a[i + 1] ELSE undef

\* a[i] = v of a JavaScript array: the array grows, the skipped slots are holes
ArraySet(a, i, v, undef) ==
  [k \in 1..Max(Len(a), i + 1) |->
     IF k = i + 1 THEN v ELSE IF k <= Len(a) THEN a[k] ELSE undef]

\* obj[k] of a number-keyed object
Get(obj, k) == IF k \in DOMAIN obj THEN obj[k] ELSE UndefinedStats

\* obj[k] = v on a copy of a number-keyed object
Put(obj, k, v) == [x \in (DOMAIN obj) \cup {k} |-> IF x = k THEN v ELSE obj[x]]

EmptyObject == [x \in {} |-> UndefinedStats]

(***************************************************************************)
(* String.prototype.trim / toLowerCase / includes.                         *)
(***************************************************************************)
WhiteSpace == {" ", "\t", "\n", "U3000"}

\* the text without its leading and trailing white space
trim(s) ==
  LET kept == {k \in 1..Len(s) : s[k] \notin WhiteSpace} IN
  IF kept = {} THEN <<>>
  ELSE SubSeq(s, CHOOSE k \in kept : \A m \in kept : k <= m,
                 CHOOSE k \in kept : \A m \in kept : k >= m)

LowerCaseOf ==
  [c \in {"A", "B", "C", "D", "E", "F", "G", "H", "I", "J", "K", "L", "M",
          "N", "O", "P", "Q", "R", "S", "T", "U", "V", "W", "X", "Y", "Z"} |->
     CASE c = "A" -> "a" [] c = "B" -> "b" [] c = "C" -> "c" [] c = "D" -> "d"
       [] c = "E" -> "e" [] c = "F" -> "f" [] c = "G" -> "g" [] c = "H" -> "h"
       [] c = "I" -> "i" [] c = "J" -> "j" [] c = "K" -> "k" [] c = "L" -> "l"
       [] c = "M" -> "m" [] c = "N" -> "n" [] c = "O" -> "o" [] c = "P" -> "p"
       [] c = "Q" -> "q" [] c = "R" -> "r" [] c = "S" -> "s" [] c = "T" -> "t"
       [] c = "U" -> "u" [] c = "V" -> "v" [] c = "W" -> "w" [] c = "X" -> "x"
       [] c = "Y" -> "y" [] c = "Z" -> "z"]

toLowerCase(s) ==
  [k \in 1..Len(s) |-> IF s[k] \in DOMAIN LowerCaseOf THEN LowerCaseOf[s[k]] ELSE s[k]]

includes(t, token) ==
  \E k \in 1..(Len(t) - Len(token) + 1) : \A m \in 1..Len(token) : t[k + m - 1] = token[m]

\* a JavaScript string used as a condition: undefined, null and '' are falsy
Truthy(s) == s # Undefined /\ s # JsonNull /\ s # <<>>

(***************************************************************************)
(* normalizeResult: the outcome classifier, in the order of the source.    *)
(***************************************************************************)
normalizeResult(text) ==
  IF ~Truthy(trim(text)) THEN ""
  ELSE LET t == trim(toLowerCase(text)) IN
    IF includes(t, <<"U5B89">>) \/ includes(t, <<"U30D2", "U30C3", "U30C8">>)
       \/ t = <<"h">> THEN "hit"
    ELSE IF includes(t, <<"U4E8C", "U5841", "U6253">>) \/ t = <<"2", "b">> THEN "2hit"
    ELSE IF includes(t, <<"U4E09", "U5841", "U6253">>) \/ t = <<"3", "b">> THEN "3hit"
    ELSE IF includes(t, <<"U672C", "U5841", "U6253">>)
            \/ includes(t, <<"U30DB", "U30FC", "U30E0", "U30E9", "U30F3">>)
            \/ t = <<"h", "r">> THEN "homerun"
    ELSE IF includes(t, <<"U4E09", "U632F">>) \/ t = <<"k">> THEN "strikeout"
    ELSE IF includes(t, <<"U56DB", "U7403">>) \/ t = <<"b", "b">> THEN "walk"
    ELSE IF includes(t, <<"U6B7B", "U7403">>) \/ t = <<"h", "b", "p">> THEN "hbp"
    ELSE IF includes(t, <<"U72A0", "U98DB">>) \/ t = <<"s", "f">> THEN "sacrifice_fly"
    ELSE IF includes(t, <<"U72A0", "U6253">>) \/ t = <<"s", "h">> THEN "sacrifice_bunt"
    ELSE IF includes(t, <<"U30B4", "U30ED">>) THEN "grounder"
    ELSE IF includes(t, <<"U30D5", "U30E9", "U30A4">>) \/ includes(t, <<"U98DB">>) THEN "fly"
    ELSE IF includes(t, <<"U30A8", "U30E9", "U30FC">>) \/ includes(t, <<"U5931">>) THEN "error"
    ELSE "custom"

(***************************************************************************)
(* updateStatsForResult: the counter deltas of one classified outcome.     *)
(***************************************************************************)
nonAtBatResults == {"walk", "hbp", "sacrifice_bunt", "sacrifice_fly"}
hitResults == {"hit", "2hit", "3hit", "homerun"}

\* mutant: a sacrifice fly is counted as an at-bat
updateStatsForResult_SacFlyAtBat(stats, result, multiplier) ==
  [stats EXCEPT
     !.atBats = IF result # "" /\ result \notin {"walk", "hbp", "sacrifice_bunt"}
                THEN @ + multiplier ELSE @,
     !.hits = IF result \in hitResults THEN @ + multiplier ELSE @,
     !.walks = IF result \in {"walk", "hbp"} THEN @ + multiplier ELSE @]

\* mutant: a strikeout is not counted as an at-bat
updateStatsForResult_StrikeoutNoAtBat(stats, result, multiplier) ==
  [stats EXCEPT
     !.atBats = IF result # "" /\ result \notin nonAtBatResults \cup {"strikeout"}
                THEN @ + multiplier ELSE @,
     !.hits = IF result \in hitResults THEN @ + multiplier ELSE @,
     !.walks = IF result \in {"walk", "hbp"} THEN @ + multiplier ELSE @]

updateStatsForResult(stats, result, multiplier) ==
  [stats EXCEPT
     !.atBats = IF result # "" /\ result \notin nonAtBatResults
                THEN @ + multiplier ELSE @,
     !.hits = IF result \in hitResults THEN @ + multiplier ELSE @,
     !.walks = IF result \in {"walk", "hbp"} THEN @ + multiplier ELSE @]

ZeroStats == [hits |-> 0, atBats |-> 0, walks |-> 0, results |-> <<>>]

(***************************************************************************)
(* updateBattingResult: the new battingStats mapping after the text        *)
(* `result` is entered in slot atBatIndex of player playerIndex.           *)
(***************************************************************************)
\* mutant: the old result is not undone
undoOldResult_Skipped(stats, atBatIndex) == stats

\* mutant: the old result is added once more instead of being taken back
undoOldResult_WrongSign(stats, atBatIndex) ==
  LET oldResult == ArrayGet(stats.results, atBatIndex, Undefined) IN
  IF Truthy(oldResult)
  THEN updateStatsForResult(stats, normalizeResult(oldResult), 1)
  ELSE stats

undoOldResult(stats, atBatIndex) ==
  LET oldResult == ArrayGet(stats.results, atBatIndex, Undefined) IN
  IF Truthy(oldResult)
  THEN updateStatsForResult(stats, normalizeResult(oldResult), -1)
  ELSE stats

applyNewResult(stats, atBatIndex, result) ==
  LET written == [stats EXCEPT !.results = ArraySet(@, atBatIndex, result, Undefined)] IN
  IF Truthy(trim(result))
  THEN updateStatsForResult(written, normalizeResult(result), 1)
  ELSE written

\* mutant: the counters are not clamped
clampStats_NoFloor(stats) == stats

clampStats(stats) ==
  [stats EXCEPT !.hits = Max(0, @), !.atBats = Max(0, @), !.walks = Max(0, @)]

\* mutant: the undo classifies the new text instead of the old one
updateBattingResult_UndoNew(battingStats, playerIndex, atBatIndex, result) ==
  LET current == Get(battingStats, playerIndex)
      stats == IF current = UndefinedStats THEN ZeroStats ELSE current
      undone == IF Truthy(ArrayGet(stats.results, atBatIndex, Undefined))
                THEN updateStatsForResult(stats, normalizeResult(result), -1)
                ELSE stats
  IN Put(battingStats, playerIndex,
         clampStats(applyNewResult(undone, atBatIndex, result)))

updateBattingResult(battingStats, playerIndex, atBatIndex, result) ==
  LET current == Get(battingStats, playerIndex)
      stats == IF current = UndefinedStats THEN ZeroStats ELSE current
  IN Put(battingStats, playerIndex,
         clampStats(applyNewResult(undoOldResult(stats, atBatIndex), atBatIndex, result)))

(***************************************************************************)
(* getTeamStats and the per-player line of the game tab.                   *)
(***************************************************************************)
RECURSIVE SumOver(_, _, _)
SumOver(obj, keys, field) ==
  IF keys = {} THEN 0
  ELSE LET k == CHOOSE x \in keys : TRUE IN
       obj[k][field] + SumOver(obj, keys \ {k}, field)

Digits == <<"0", "1", "2", "3", "4", "5", "6", "7", "8", "9">>

\* (num / den).toFixed(3): the nearest multiple of 0.001, the larger one on a tie
toFixed3(num, den) ==
  LET n == (2000 * num + den) \div (2 * den)
      whole == n \div 1000
      wholeDigits == IF whole >= 10
                     THEN <<Digits[((whole \div 10) % 10) + 1], Digits[(whole % 10) + 1]>>
                     ELSE <<Digits[whole + 1]>>
  IN wholeDigits \o <<".", Digits[((n \div 100) % 10) + 1],
                      Digits[((n \div 10) % 10) + 1], Digits[(n % 10) + 1]>>

NoData == <<".", "-", "-", "-">>

\* Object.values(battingStats) holds an undefined: stats.hits throws
teamStatsThrows(battingStats) ==
  \E k \in DOMAIN battingStats : battingStats[k] = UndefinedStats

\* mutant: the on-base percentage leaves the walks out
getTeamStats_ObpNoWalks(battingStats) ==
  IF teamStatsThrows(battingStats)
  THEN TypeError
  ELSE LET totalHits == SumOver(battingStats, DOMAIN battingStats, "hits")
           totalAtBats == SumOver(battingStats, DOMAIN battingStats, "atBats")
           totalWalks == SumOver(battingStats, DOMAIN battingStats, "walks")
       IN [totalHits |-> totalHits, totalAtBats |-> totalAtBats,
           totalWalks |-> totalWalks,
           avg |-> IF totalAtBats > 0 THEN toFixed3(totalHits, totalAtBats) ELSE NoData,
           obp |-> IF totalAtBats > 0 THEN toFixed3(totalHits, totalAtBats) ELSE NoData]

getTeamStats(battingStats) ==
  IF teamStatsThrows(battingStats)
  THEN TypeError
  ELSE LET totalHits == SumOver(battingStats, DOMAIN battingStats, "hits")
           totalAtBats == SumOver(battingStats, DOMAIN battingStats, "atBats")
           totalWalks == SumOver(battingStats, DOMAIN battingStats, "walks")
       IN [totalHits |-> totalHits, totalAtBats |-> totalAtBats,
           totalWalks |-> totalWalks,
           avg |-> IF totalAtBats > 0 THEN toFixed3(totalHits, totalAtBats) ELSE NoData,
           obp |-> IF totalAtBats + totalWalks > 0
                   THEN toFixed3(totalHits + totalWalks, totalAtBats + totalWalks)
                   ELSE NoData]

\* gameState.battingStats[index] || { hits: 0, atBats: 0, walks: 0, results: [] }
playerStats(battingStats, index) ==
  IF Get(battingStats, index) = UndefinedStats THEN ZeroStats
  ELSE Get(battingStats, index)

playerAvg(stats) ==
  IF stats.atBats > 0 THEN toFixed3(stats.hits, stats.atBats) ELSE NoData

\* the render of Home throws: getTeamStats or a row of players.map reads a
\* property of undefined
RenderThrows(ps, gs) ==
  \/ teamStatsThrows(gs.battingStats)
  \/ \E k \in 1..Len(ps) : ps[k] = UndefinedPlayer

(***************************************************************************)
(* The roster handlers, as functions of the state they read.               *)
(***************************************************************************)
\* players.filter((_, i) => i !== index)
removePlayer(ps, index) ==
  [k \in 1..(Len(ps) - 1) |-> IF k <= index THEN ps[k] ELSE ps[k + 1]]

\* mutant: oldIdx <= index instead of oldIdx < index
removeStats_OffByOne(battingStats, index) ==
  LET below == {k \in DOMAIN battingStats : k <= index}
      above == {k \in DOMAIN battingStats : k > index}
  IN [k \in below \cup {x - 1 : x \in above} |->
        IF (k + 1) \in above THEN battingStats[k + 1] ELSE battingStats[k]]

\* the Object.keys loop of deletePlayer
removeStats(battingStats, index) ==
  LET below == {k \in DOMAIN battingStats : k < index}
      above == {k \in DOMAIN battingStats : k > index}
  IN [k \in below \cup {x - 1 : x \in above} |->
        IF k < index THEN battingStats[k] ELSE battingStats[k + 1]]

\* ;[a[i], a[j]] = [a[j], a[i]] on a copy of the array
swapPlayers(ps, i, j) ==
  ArraySet(ArraySet(ps, i, ArrayGet(ps, j, UndefinedPlayer), UndefinedPlayer),
           j, ArrayGet(ps, i, UndefinedPlayer), UndefinedPlayer)

\* mutant: the players are swapped, the stats are left where they were
swapStats_NotSwapped(battingStats, i, j) == battingStats

\* mutant: s[i] = s[j]; s[j] = s[i] without the temporary
swapStats_NoTemp(battingStats, i, j) ==
  Put(Put(battingStats, i, Get(battingStats, j)), j, Get(battingStats, j))

\* tempStats = s[i]; s[i] = s[j]; s[j] = tempStats on a copy of the mapping
swapStats(battingStats, i, j) ==
  Put(Put(battingStats, i, Get(battingStats, j)), j, Get(battingStats, i))

\* mutant: the fresh entry is written one key too far
addStats_WrongIndex(battingStats, length) == Put(battingStats, length, ZeroStats)

\* newBattingStats[newPlayers.length - 1] = { hits: 0, atBats: 0, walks: 0, results: [] }
addStats(battingStats, length) == Put(battingStats, length - 1, ZeroStats)

(***************************************************************************)
(* Time: the echo window of the realtime handler, the delay of the         *)
(* autosave timer.  The clock starts one window after 0, the initial       *)
(* lastSaveTime, as Date.now() is far beyond it.                           *)
(***************************************************************************)
Window == 2000
Debounce == 1000
Epoch == Window

\* a single page studied on its own: no browser is tracked, no payload is in flight
NoClients ==
  /\ clients = <<>>
  /\ inbox = <<>>
  /\ now = Epoch

(***************************************************************************)
(* The state after construction, and the persisted row.                    *)
(***************************************************************************)
InitialGameState ==
  [inning |-> 1, isTopHalf |-> TRUE, currentBatterIndex |-> 0,
   battingStats |-> EmptyObject]

DefaultPos == "U6295"
DefaultFace == "U1F60A"

\* .single() on an empty table answers with an error
NoRow == [error |-> TRUE]

\* a row written before the game tab existed: a batting order, no gameState
LegacyRow ==
  [id |-> 1,
   data |-> [players |-> << [name |-> <<"A">>, pos |-> DefaultPos, face |-> DefaultFace],
                            [name |-> <<"B">>, pos |-> "U6355", face |-> DefaultFace] >>]]

StoredRows == {NoRow, LegacyRow}

NameInputs == {<<>>, <<"U3000">>, <<" ", "C">>}
BlankName == <<"U3000">>
ValidName == <<" ", "C">>

NoCall == [fn |-> "none"]

Init ==
  /\ players = <<>>
  /\ gameState = InitialGameState
  /\ selectedPlayer = Null
  /\ loading = TRUE
  /\ dataId = Null
  /\ db \in StoredRows
  /\ crashed = FALSE
  /\ nextUid = 1
  /\ ledger = EmptyObject
  /\ edits = 0
  /\ lastOp = "none"
  /\ call = NoCall
  /\ NoClients

\* setPlayers / setGameState followed by the render of the new state
Commit(ps, gs) ==
  /\ players' = ps
  /\ gameState' = gs
  /\ crashed' = RenderThrows(ps, gs)

Interactive == ~loading /\ ~crashed

(***************************************************************************)
(* loadData                                                                *)
(***************************************************************************)
LoadData ==
  /\ loading /\ ~crashed
  /\ loading' = FALSE
  /\ lastOp' = "loadData"
  /\ IF db = NoRow
     THEN UNCHANGED <<players, gameState, crashed, dataId, nextUid, ledger>>
     ELSE LET loaded == db.data.players
              gs == IF "gameState" \in DOMAIN db.data
                    THEN db.data.gameState ELSE InitialGameState
              ps == [k \in 1..Len(loaded) |->
                       [name |-> loaded[k].name, pos |-> loaded[k].pos,
                        face |-> loaded[k].face, uid |-> nextUid + k - 1]]
          IN /\ Commit(ps, gs)
             /\ dataId' = db.id
             /\ nextUid' = nextUid + Len(loaded)
             /\ ledger' = [u \in {ps[k].uid : k \in 1..Len(ps)} |->
                             playerStats(gs.battingStats, u - nextUid)]
  /\ UNCHANGED <<selectedPlayer, db, edits, call, clients, inbox, now>>

(***************************************************************************)
(* addPlayer                                                               *)
(***************************************************************************)
AddPlayer(playerName) ==
  /\ Interactive
  /\ nextUid <= MaxPlayers
  /\ IF ~Truthy(trim(playerName))
     THEN /\ lastOp' = "addPlayer"
          /\ UNCHANGED <<players, gameState, crashed, nextUid, ledger>>
     ELSE LET newPlayers == Append(players, [name |-> trim(playerName), pos |-> DefaultPos,
                                             face |-> DefaultFace, uid |-> nextUid])
          IN /\ Commit(newPlayers,
                       [gameState EXCEPT !.battingStats = addStats(@, Len(newPlayers))])
             /\ nextUid' = nextUid + 1
             /\ ledger' = Put(ledger, nextUid, ZeroStats)
             /\ lastOp' = "addPlayer"
  /\ UNCHANGED <<selectedPlayer, loading, dataId, db, edits, call, clients, inbox, now>>

(***************************************************************************)
(* deletePlayer, the confirm dialog answered OK                            *)
(***************************************************************************)
DeletePlayer(index) ==
  /\ Interactive
  /\ index \in 0..(Len(players) - 1)
  /\ Commit(removePlayer(players, index),
            [gameState EXCEPT !.battingStats = removeStats(@, index)])
  /\ ledger' = [u \in (DOMAIN ledger) \ {players[index + 1].uid} |-> ledger[u]]
  /\ lastOp' = "deletePlayer"
  /\ UNCHANGED <<selectedPlayer, loading, dataId, db, nextUid, edits, call, clients, inbox, now>>

(***************************************************************************)
(* movePlayer (arrow buttons)                                              *)
(***************************************************************************)
MovePlayer(index, direction) ==
  /\ Interactive
  /\ index \in 0..(Len(players) - 1)
  /\ LET newIndex == IF direction = "up" THEN index - 1 ELSE index + 1 IN
     /\ lastOp' = "movePlayer"
     /\ IF newIndex < 0 \/ newIndex >= Len(players)
        THEN UNCHANGED <<players, gameState, crashed>>
        ELSE Commit(swapPlayers(players, index, newIndex),
                    [gameState EXCEPT !.battingStats = swapStats(@, index, newIndex)])
  /\ UNCHANGED <<selectedPlayer, loading, dataId, db, nextUid, ledger, edits, call, clients, inbox, now>>

(***************************************************************************)
(* handlePlayerSelect (click to select, click another row to swap)         *)
(***************************************************************************)
HandlePlayerSelect(index) ==
  /\ Interactive
  /\ index \in 0..(Len(players) - 1)
  /\ lastOp' = "handlePlayerSelect"
  /\ IF selectedPlayer = Null
     THEN /\ selectedPlayer' = index
          /\ UNCHANGED <<players, gameState, crashed>>
     ELSE IF selectedPlayer = index
     THEN /\ selectedPlayer' = Null
          /\ UNCHANGED <<players, gameState, crashed>>
     ELSE /\ Commit(swapPlayers(players, selectedPlayer, index),
                    [gameState EXCEPT !.battingStats = swapStats(@, selectedPlayer, index)])
          /\ selectedPlayer' = Null
  /\ UNCHANGED <<loading, dataId, db, nextUid, ledger, edits, call, clients, inbox, now>>

(***************************************************************************)
(* updateBattingResult (onChange of an at-bat input of the game tab)       *)
(***************************************************************************)
AtBatSlots == 0..3

EnterResult(playerIndex, atBatIndex, result) ==
  /\ Interactive
  /\ playerIndex \in 0..(Len(players) - 1)
  /\ atBatIndex \in AtBatSlots
  /\ Commit(players,
            [gameState EXCEPT
               !.battingStats = updateBattingResult(@, playerIndex, atBatIndex, result)])
  /\ LET uid == players[playerIndex + 1].uid IN
     ledger' = [ledger EXCEPT
                  ![uid] = updateBattingResult(Put(EmptyObject, 0, @), 0, atBatIndex, result)[0]]
  /\ lastOp' = "updateBattingResult"
  /\ UNCHANGED <<selectedPlayer, loading, dataId, db, nextUid, call, clients, inbox, now>>

(***************************************************************************)
(* Texts typed into the at-bat inputs.                                     *)
(***************************************************************************)
TextEmpty == <<>>
TextBlank == <<" ">>
TextSingle == <<"U5DE6", "U5B89">>
TextStrikeout == <<"U4E09", "U632F">>
TextWalk == <<"U56DB", "U7403">>
TextSacFly == <<"U72A0", "U98DB">>
TextDouble == <<"U4E8C", "U5841", "U6253">>
TextCustom == <<"X">>

LedgerTexts == {TextEmpty, TextBlank, TextSingle, TextStrikeout, TextWalk,
                TextSacFly, TextDouble, TextCustom}

RosterTexts == {TextSingle}
RosterSlots == {0, 1}

UpdateBattingResult(playerIndex, atBatIndex, result) ==
  /\ edits < MaxEdits
  /\ edits' = edits + 1
  /\ EnterResult(playerIndex, atBatIndex, result)

(***************************************************************************)
(* Spec: the page from its construction; the roster handlers and the       *)
(* at-bat inputs in any order.                                             *)
(***************************************************************************)
Next ==
  \/ LoadData
  \/ \E playerName \in NameInputs : AddPlayer(playerName)
  \/ \E index \in 0..MaxPlayers : DeletePlayer(index)
  \/ \E index \in 0..MaxPlayers, direction \in {"up", "down"} : MovePlayer(index, direction)
  \/ \E index \in 0..MaxPlayers : HandlePlayerSelect(index)
  \/ \E playerIndex \in 0..MaxPlayers, atBatIndex \in RosterSlots, result \in RosterTexts :
        UpdateBattingResult(playerIndex, atBatIndex, result)

Spec == Init /\ [][Next]_vars

(***************************************************************************)
(* LedgerSpec: one freshly added player at index 0 (the row could not be   *)
(* loaded, then addPlayer); every text in every slot, in any order.        *)
(***************************************************************************)
LedgerInit ==
  /\ players = << [name |-> <<"C">>, pos |-> DefaultPos, face |-> DefaultFace, uid |-> 1] >>
  /\ gameState = [InitialGameState EXCEPT !.battingStats = addStats(@, 1)]
  /\ selectedPlayer = Null
  /\ loading = FALSE
  /\ dataId = Null
  /\ db = NoRow
  /\ crashed = FALSE
  /\ nextUid = 2
  /\ ledger = Put(EmptyObject, 1, ZeroStats)
  /\ edits = 0
  /\ lastOp = "addPlayer"
  /\ call = NoCall
  /\ NoClients

LedgerEdit(atBatIndex, result) ==
  /\ EnterResult(0, atBatIndex, result)
  /\ UNCHANGED edits

LedgerNext == \E atBatIndex \in AtBatSlots, result \in LedgerTexts : LedgerEdit(atBatIndex, result)

LedgerSpec == LedgerInit /\ [][LedgerNext]_vars

(***************************************************************************)
(* ClassifySpec: calls of the pure functions normalizeResult,              *)
(* updateStatsForResult and updateBattingResult on inputs drawn from       *)
(* bounded sets.                                                           *)
(***************************************************************************)
TextHitDouble == <<"U5DE6", "U5B89", "U4E8C", "U5841", "U6253">>
TextTripleHit == <<"U4E09", "U5841", "U6253", "U30D2", "U30C3", "U30C8">>
TextHomerHit == <<"U672C", "U5841", "U6253", "U5B89">>

ClassifierTexts ==
  {TextEmpty, TextBlank, <<"U3000">>, TextSingle, <<"H">>, <<"U30D2", "U30C3", "U30C8">>,
   TextDouble, <<"2", "B">>, <<"U4E09", "U5841", "U6253">>, <<"3", "b">>,
   <<"U672C", "U5841", "U6253">>, <<"U30DB", "U30FC", "U30E0", "U30E9", "U30F3">>,
   <<"H", "R">>, TextStrikeout, <<"K">>, TextWalk, <<" ", "U56DB", "U7403", " ">>,
   <<"b", "b">>, <<"U6B7B", "U7403">>, <<"h", "b", "p">>, TextSacFly, <<"s", "f">>,
   <<"U72A0", "U6253">>, <<"s", "h">>, <<"U904A", "U30B4", "U30ED">>,
   <<"U4E2D", "U98DB">>, <<"U30D5", "U30E9", "U30A4">>, <<"U30A8", "U30E9", "U30FC">>,
   <<"U5931">>, TextCustom, TextHitDouble, TextTripleHit, TextHomerHit}

Kinds == {"", "hit", "2hit", "3hit", "homerun", "strikeout", "walk", "hbp",
          "sacrifice_fly", "sacrifice_bunt", "grounder", "fly", "error", "custom"}

\* stats objects the page builds from zero by one entry in slot 0
SampleStats ==
  {ZeroStats} \cup
  {updateBattingResult(Put(EmptyObject, 0, ZeroStats), 0, 0, t)[0] :
     t \in {TextEmpty, TextBlank, TextSingle, TextWalk, TextStrikeout, TextSacFly}}

ClassifyInit ==
  /\ players = <<>>
  /\ gameState = InitialGameState
  /\ selectedPlayer = Null
  /\ loading = TRUE
  /\ dataId = Null
  /\ db = NoRow
  /\ crashed = FALSE
  /\ nextUid = 1
  /\ ledger = EmptyObject
  /\ edits = 0
  /\ lastOp = "none"
  /\ call = NoCall
  /\ NoClients

appVars == <<players, gameState, selectedPlayer, loading, dataId, db, crashed,
             nextUid, ledger, edits, lastOp, clients, inbox, now>>

CallNormalizeResult(text) ==
  /\ call' = [fn |-> "normalizeResult", text |-> text, result |-> normalizeResult(text)]
  /\ UNCHANGED appVars

CallUpdateStatsForResult(stats, result, multiplier) ==
  /\ call' = [fn |-> "updateStatsForResult", stats |-> stats, kind |-> result,
              multiplier |-> multiplier,
              result |-> updateStatsForResult(stats, result, multiplier)]
  /\ UNCHANGED appVars

CallUpdateBattingResult(stats, atBatIndex, text) ==
  /\ call' = [fn |-> "updateBattingResult", stats |-> stats, atBatIndex |-> atBatIndex,
              text |-> text,
              result |-> updateBattingResult(Put(EmptyObject, 0, stats), 0, atBatIndex, text)[0]]
  /\ UNCHANGED appVars

ClassifyNext ==
  \/ \E text \in ClassifierTexts : CallNormalizeResult(text)
  \/ \E stats \in SampleStats, result \in Kinds, multiplier \in {-1, 1} :
        CallUpdateStatsForResult(stats, result, multiplier)
  \/ \E stats \in SampleStats, atBatIndex \in {0, 1}, text \in ClassifierTexts :
        CallUpdateBattingResult(stats, atBatIndex, text)

ClassifySpec == ClassifyInit /\ [][ClassifyNext]_vars

(***************************************************************************)
(* FloorSpec: updateBattingResult on stats objects as a persisted row may  *)
(* hold them: the counters need not agree with the results.                *)
(***************************************************************************)
FloorResults == {<<>>, <<TextStrikeout>>, <<TextSingle, TextWalk>>, <<JsonNull, TextSacFly>>}

LoadedStats ==
  {[hits |-> h, atBats |-> a, walks |-> w, results |-> r] :
     h \in {0, 1}, a \in {0, 1}, w \in {0, 1}, r \in FloorResults}

FloorTexts == {TextEmpty, TextSingle, TextStrikeout, TextWalk}

FloorNext ==
  \E stats \in LoadedStats, atBatIndex \in AtBatSlots, text \in FloorTexts :
     CallUpdateBattingResult(stats, atBatIndex, text)

FloorSpec == ClassifyInit /\ [][FloorNext]_vars

(***************************************************************************)
(* TeamSpec: the page after a load that found no row; players are added    *)
(* and results entered, and every render computes getTeamStats().          *)
(***************************************************************************)
TeamPlayers == 2
TeamSlots == {0, 1}
TeamTexts == {TextEmpty, TextSingle, TextStrikeout, TextWalk}

TeamInit ==
  /\ players = <<>>
  /\ gameState = InitialGameState
  /\ selectedPlayer = Null
  /\ loading = FALSE
  /\ dataId = Null
  /\ db = NoRow
  /\ crashed = FALSE
  /\ nextUid = 1
  /\ ledger = EmptyObject
  /\ edits = 0
  /\ lastOp = "loadData"
  /\ call = NoCall
  /\ NoClients

TeamAdd ==
  /\ Len(players) < TeamPlayers
  /\ AddPlayer(<<" ", "C">>)

TeamEdit(playerIndex, atBatIndex, result) ==
  /\ EnterResult(playerIndex, atBatIndex, result)
  /\ UNCHANGED edits

TeamNext ==
  \/ TeamAdd
  \/ \E playerIndex \in 0..(TeamPlayers - 1), atBatIndex \in TeamSlots, result \in TeamTexts :
        TeamEdit(playerIndex, atBatIndex, result)

TeamSpec == TeamInit /\ [][TeamNext]_vars

(***************************************************************************)
(* The inning cursor of the game tab and resetGame.                        *)
(***************************************************************************)
MaxInning == 4

\* mutant: the floor test of the second branch is gone
retreat_NoFloor(prev) ==
  IF ~prev.isTopHalf /\ prev.inning > 1
  THEN [prev EXCEPT !.isTopHalf = TRUE]
  ELSE IF prev.isTopHalf
  THEN [prev EXCEPT !.isTopHalf = FALSE, !.inning = @ - 1]
  ELSE prev

\* the updater of the retreat button
retreat(prev) ==
  IF ~prev.isTopHalf /\ prev.inning > 1
  THEN [prev EXCEPT !.isTopHalf = TRUE]
  ELSE IF prev.isTopHalf /\ prev.inning > 1
  THEN [prev EXCEPT !.isTopHalf = FALSE, !.inning = @ - 1]
  ELSE prev

\* mutant: the bottom half ends without the inning going up
advance_SameInning(prev) ==
  IF prev.isTopHalf
  THEN [prev EXCEPT !.isTopHalf = FALSE]
  ELSE [prev EXCEPT !.isTopHalf = TRUE]

\* the updater of the advance button
advance(prev) ==
  IF prev.isTopHalf
  THEN [prev EXCEPT !.isTopHalf = FALSE]
  ELSE [prev EXCEPT !.isTopHalf = TRUE, !.inning = @ + 1]

\* players.forEach((_, index) => newBattingStats[index] = zero)
resetStats(ps) == [k \in 0..(Len(ps) - 1) |-> ZeroStats]

RetreatInning ==
  /\ Interactive
  /\ Commit(players, retreat(gameState))
  /\ lastOp' = "retreatInning"
  /\ UNCHANGED <<selectedPlayer, loading, dataId, db, nextUid, ledger, edits, call, clients, inbox, now>>

AdvanceInning ==
  /\ Interactive
  /\ gameState.inning < MaxInning
  /\ Commit(players, advance(gameState))
  /\ lastOp' = "advanceInning"
  /\ UNCHANGED <<selectedPlayer, loading, dataId, db, nextUid, ledger, edits, call, clients, inbox, now>>

\* resetGame, the confirm dialog answered OK
ResetGame ==
  /\ Interactive
  /\ Commit(players, [InitialGameState EXCEPT !.battingStats = resetStats(players)])
  /\ ledger' = [u \in DOMAIN ledger |-> ZeroStats]
  /\ lastOp' = "resetGame"
  /\ UNCHANGED <<selectedPlayer, loading, dataId, db, nextUid, edits, call, clients, inbox, now>>

\* clearAll, the confirm dialog answered OK
ClearAll ==
  /\ Interactive
  /\ Commit(<<>>, InitialGameState)
  /\ ledger' = EmptyObject
  /\ lastOp' = "clearAll"
  /\ UNCHANGED <<selectedPlayer, loading, dataId, db, nextUid, edits, call, clients, inbox, now>>

(***************************************************************************)
(* InningSpec: one freshly added player; the cursor buttons, resetGame and *)
(* the at-bat inputs in any order.                                         *)
(***************************************************************************)
InningSlots == {0, 1}
InningTexts == {TextSingle, TextStrikeout, TextWalk}

InningEdit(atBatIndex, result) ==
  /\ EnterResult(0, atBatIndex, result)
  /\ UNCHANGED edits

InningNext ==
  \/ RetreatInning
  \/ AdvanceInning
  \/ ResetGame
  \/ \E atBatIndex \in InningSlots, result \in InningTexts : InningEdit(atBatIndex, result)

InningSpec == LedgerInit /\ [][InningNext]_vars

(***************************************************************************)
(* GameSpec: the page from the empty state (the load found no row); the    *)
(* roster handlers, resetGame, clearAll and at-bat inputs in any order.    *)
(***************************************************************************)
GameNext ==
  \/ AddPlayer(ValidName)
  \/ \E index \in 0..MaxPlayers : DeletePlayer(index)
  \/ \E index \in 0..MaxPlayers, direction \in {"up", "down"} : MovePlayer(index, direction)
  \/ \E index \in 0..MaxPlayers : HandlePlayerSelect(index)
  \/ \E playerIndex \in 0..MaxPlayers, atBatIndex \in RosterSlots, result \in RosterTexts :
        UpdateBattingResult(playerIndex, atBatIndex, result)
  \/ ResetGame
  \/ ClearAll

GameSpec == TeamInit /\ [][GameNext]_vars

(***************************************************************************)
(* LineSpec: the page from the empty state, after one player was added and *)
(* a result typed into each of the four at-bat inputs; players are added,  *)
(* deleted and swapped, and results are typed over.                        *)
(***************************************************************************)
FullLine ==
  [hits |-> 2, atBats |-> 3, walks |-> 1,
   results |-> <<TextSingle, TextWalk, TextStrikeout, TextSingle>>]

LineTexts == {TextSingle, TextWalk}

LineInit ==
  /\ players = << [name |-> <<"C">>, pos |-> DefaultPos, face |-> DefaultFace, uid |-> 1] >>
  /\ gameState = [InitialGameState EXCEPT !.battingStats = Put(EmptyObject, 0, FullLine)]
  /\ selectedPlayer = Null
  /\ loading = FALSE
  /\ dataId = Null
  /\ db = NoRow
  /\ crashed = FALSE
  /\ nextUid = 2
  /\ ledger = Put(EmptyObject, 1, FullLine)
  /\ edits = 0
  /\ lastOp = "updateBattingResult"
  /\ call = NoCall
  /\ NoClients

\* at most TeamPlayers players are ever created
LineAdd ==
  /\ nextUid <= TeamPlayers
  /\ AddPlayer(ValidName)

LineNext ==
  \/ LineAdd
  \/ \E index \in 0..TeamPlayers : DeletePlayer(index)
  \/ \E index \in 0..TeamPlayers : HandlePlayerSelect(index)
  \/ \E playerIndex \in 0..TeamPlayers, atBatIndex \in AtBatSlots, result \in LineTexts :
        UpdateBattingResult(playerIndex, atBatIndex, result)

LineSpec == LineInit /\ [][LineNext]_vars

(***************************************************************************)
(* The five persisted components of one Home, and the handlers as          *)
(* functions of them.                                                      *)
(***************************************************************************)
EmptyAggregate ==
  [players |-> <<>>, benchPitchers |-> <<>>, benchCatchers |-> <<>>,
   managers |-> <<>>, gameState |-> InitialGameState]

addPlayer(local, playerName) ==
  IF ~Truthy(trim(playerName)) THEN local
  ELSE LET newPlayers == Append(local.players, [name |-> trim(playerName),
                                                pos |-> DefaultPos, face |-> DefaultFace])
       IN [local EXCEPT !.players = newPlayers,
                        !.gameState.battingStats = addStats(@, Len(newPlayers))]

addBenchPitcher(local, benchPitcherName) ==
  IF ~Truthy(trim(benchPitcherName)) THEN local
  ELSE [local EXCEPT !.benchPitchers =
          Append(@, [name |-> trim(benchPitcherName), face |-> DefaultFace])]

addBenchCatcher(local, benchCatcherName) ==
  IF ~Truthy(trim(benchCatcherName)) THEN local
  ELSE [local EXCEPT !.benchCatchers =
          Append(@, [name |-> trim(benchCatcherName), face |-> DefaultFace])]

\* mutant: the name is not validated
addManager_NoValidation(local, managerName) ==
  [local EXCEPT !.managers = Append(@, [name |-> trim(managerName), face |-> DefaultFace])]

addManager(local, managerName) ==
  IF ~Truthy(trim(managerName)) THEN local
  ELSE [local EXCEPT !.managers =
          Append(@, [name |-> trim(managerName), face |-> DefaultFace])]

\* mutant: the game state is built from the initial one, not from the current one
deletePlayer_FromInitial(local, index) ==
  [local EXCEPT !.players = removePlayer(@, index),
                !.gameState = [InitialGameState EXCEPT
                                 !.battingStats = removeStats(local.gameState.battingStats, index)]]

\* deletePlayer, the confirm dialog answered OK
deletePlayer(local, index) ==
  [local EXCEPT !.players = removePlayer(@, index),
                !.gameState.battingStats = removeStats(@, index)]

\* handlePlayerSelect(index) while selectedPlayer holds `selected`: the swap
handlePlayerSelect(local, selected, index) ==
  IF selected = Null \/ selected = index THEN local
  ELSE [local EXCEPT !.players = swapPlayers(@, selected, index),
                     !.gameState.battingStats = swapStats(@, selected, index)]

\* resetGame, the confirm dialog answered OK
resetGame(local) ==
  [local EXCEPT !.gameState =
     [InitialGameState EXCEPT !.battingStats = resetStats(local.players)]]

\* clearAll, the confirm dialog answered OK
clearAll(local) ==
  [players |-> <<>>, benchPitchers |-> <<>>, benchCatchers |-> <<>>,
   managers |-> <<>>, gameState |-> InitialGameState]

\* one user operation on the page
applyEdit(local, e) ==
  CASE e.op = "addPlayer" -> addPlayer(local, e.name)
    [] e.op = "addBenchPitcher" -> addBenchPitcher(local, e.name)
    [] e.op = "addBenchCatcher" -> addBenchCatcher(local, e.name)
    [] e.op = "addManager" -> addManager(local, e.name)
    [] e.op = "updateBattingResult" ->
         [local EXCEPT !.gameState.battingStats =
            updateBattingResult(@, e.playerIndex, e.atBatIndex, e.result)]
    [] e.op = "advance" -> [local EXCEPT !.gameState = advance(@)]
    [] e.op = "retreat" -> [local EXCEPT !.gameState = retreat(@)]
    [] e.op = "deletePlayer" -> deletePlayer(local, e.index)
    [] e.op = "handlePlayerSelect" -> handlePlayerSelect(local, e.selectedPlayer, e.index)
    [] e.op = "resetGame" -> resetGame(local)
    [] e.op = "clearAll" -> clearAll(local)

(***************************************************************************)
(* JSON: what the row holds of an aggregate, and what loadData and the     *)
(* realtime handler make of a row.                                         *)
(***************************************************************************)
\* a hole of an array is written as null
jsonResults(results) ==
  [k \in 1..Len(results) |-> IF results[k] = Undefined THEN JsonNull ELSE results[k]]

\* a key holding undefined is left out
jsonStats(battingStats) ==
  [k \in {x \in DOMAIN battingStats : battingStats[x] # UndefinedStats} |->
     [battingStats[k] EXCEPT !.results = jsonResults(@)]]

\* mutant: the managers are not part of the saved object
orderDataOf_NoManagers(local) ==
  [players |-> local.players, benchPitchers |-> local.benchPitchers,
   benchCatchers |-> local.benchCatchers,
   gameState |-> [local.gameState EXCEPT !.battingStats = jsonStats(@)]]

\* const orderData = { players, benchPitchers, benchCatchers, managers, gameState }
orderDataOf(local) ==
  [players |-> local.players, benchPitchers |-> local.benchPitchers,
   benchCatchers |-> local.benchCatchers, managers |-> local.managers,
   gameState |-> [local.gameState EXCEPT !.battingStats = jsonStats(@)]]

\* mutant: the managers of the page survive the replacement
restore_KeepManagers(orderData, local) ==
  [players |-> IF "players" \in DOMAIN orderData THEN orderData.players ELSE <<>>,
   benchPitchers |-> IF "benchPitchers" \in DOMAIN orderData
                     THEN orderData.benchPitchers ELSE <<>>,
   benchCatchers |-> IF "benchCatchers" \in DOMAIN orderData
                     THEN orderData.benchCatchers ELSE <<>>,
   managers |-> local.managers,
   gameState |-> IF "gameState" \in DOMAIN orderData
                 THEN orderData.gameState ELSE InitialGameState]

\* setPlayers(orderData.players || []) ... setGameState(orderData.gameState || initial)
restore(orderData, local) ==
  [players |-> IF "players" \in DOMAIN orderData THEN orderData.players ELSE <<>>,
   benchPitchers |-> IF "benchPitchers" \in DOMAIN orderData
                     THEN orderData.benchPitchers ELSE <<>>,
   benchCatchers |-> IF "benchCatchers" \in DOMAIN orderData
                     THEN orderData.benchCatchers ELSE <<>>,
   managers |-> IF "managers" \in DOMAIN orderData THEN orderData.managers ELSE <<>>,
   gameState |-> IF "gameState" \in DOMAIN orderData
                 THEN orderData.gameState ELSE InitialGameState]

(***************************************************************************)
(* Browsers sharing the row: loadData, the autosave effect and its timer,  *)
(* saveData, the postgres_changes handler.                                 *)
(***************************************************************************)
MaxTicks == 3

\* a Home after construction; timer is the time at which the timeout created by
\* the latest run of the autosave effect is due (Null: that run created none, or
\* it has fired); pending holds the due times of all timeouts neither fired nor
\* cleared; changed is the time of the latest call of a setter of the five
\* components; unsaved records a change made by the user that no saveData call
\* has taken up yet; saves counts the updates saveData has sent
FreshClient ==
  [local |-> EmptyAggregate, loading |-> TRUE, dataId |-> Null,
   lastSaveTime |-> 0, timer |-> Null, pending |-> {}, changed |-> 0, unsaved |-> FALSE,
   saves |-> 0]

pageVars == <<players, gameState, selectedPlayer, loading, dataId, crashed,
              nextUid, ledger, call>>

\* mutant: the effect returns no cleanup
autosaveEffect_NoCleanup(client) ==
  IF ~client.loading /\ client.dataId # Null
  THEN [client EXCEPT !.timer = now + Debounce, !.pending = @ \cup {now + Debounce}]
  ELSE client

\* the autosave effect after a render in which one of its dependencies changed:
\* the cleanup of the previous run (clearTimeout), then the new run
autosaveEffect(client) ==
  LET cleared == client.pending \ {client.timer} IN
  IF ~client.loading /\ client.dataId # Null
  THEN [client EXCEPT !.timer = now + Debounce, !.pending = cleared \cup {now + Debounce}]
  ELSE [client EXCEPT !.timer = Null, !.pending = cleared]

\* loadData of browser c; ok: the request went through
ClientLoad(c, ok) ==
  /\ c \in DOMAIN clients
  /\ clients[c].loading
  /\ clients' = [clients EXCEPT ![c] =
        IF ok /\ db # NoRow
        THEN autosaveEffect([@ EXCEPT !.dataId = db.id,
                                      !.local = restore(db.data, clients[c].local),
                                      !.changed = now,
                                      !.loading = FALSE])
        ELSE [@ EXCEPT !.loading = FALSE]]
  /\ lastOp' = "loadData"
  /\ UNCHANGED <<pageVars, db, edits, inbox, now>>

\* the handler of e calls a setter of one of the five components: it does not
\* after the alert of a blank name, on a first click or a click on the selected
\* row, and when the retreat updater returns prev
callsSetter(local, e) ==
  CASE e.op \in {"addPlayer", "addBenchPitcher", "addBenchCatcher", "addManager"} ->
         applyEdit(local, e) # local
    [] e.op = "retreat" -> retreat(local.gameState) # local.gameState
    [] e.op = "handlePlayerSelect" -> e.selectedPlayer # Null /\ e.selectedPlayer # e.index
    [] OTHER -> TRUE

\* a user operation on the page of browser c
ClientEdit(c, e) ==
  /\ c \in DOMAIN clients
  /\ ~clients[c].loading
  /\ edits < MaxEdits
  /\ edits' = edits + 1
  /\ clients' = [clients EXCEPT ![c] =
        IF ~callsSetter(clients[c].local, e) THEN @
        ELSE autosaveEffect([@ EXCEPT !.local = applyEdit(clients[c].local, e),
                                      !.changed = now,
                                      !.unsaved = TRUE])]
  /\ lastOp' = e.op
  /\ UNCHANGED <<pageVars, db, inbox, now>>

\* a timeout of browser c fires: saveData(false); ok: the update went through
SaveFire(c, ok) ==
  /\ c \in DOMAIN clients
  /\ \E due \in clients[c].pending : now >= due
  /\ LET due == CHOOSE d \in clients[c].pending : now >= d IN
     clients' = [clients EXCEPT ![c] =
        LET fired == [@ EXCEPT !.pending = @ \ {due},
                               !.timer = IF @ = due THEN Null ELSE @]
        IN IF fired.dataId = Null THEN fired
           ELSE [fired EXCEPT !.lastSaveTime = now, !.unsaved = FALSE, !.saves = @ + 1]]
  /\ IF ok /\ clients[c].dataId # Null
     THEN LET row == [id |-> clients[c].dataId, data |-> orderDataOf(clients[c].local)] IN
          /\ db' = row
          /\ inbox' = [k \in DOMAIN inbox |-> Append(inbox[k], row)]
     ELSE UNCHANGED <<db, inbox>>
  /\ lastOp' = IF ok THEN "saveData" ELSE "saveData failed"
  /\ UNCHANGED <<pageVars, edits, now>>

\* the postgres_changes handler of browser c receives the oldest payload
Deliver(c) ==
  /\ c \in DOMAIN clients
  /\ inbox[c] # <<>>
  /\ inbox' = [inbox EXCEPT ![c] = Tail(@)]
  /\ LET newData == Head(inbox[c]) IN
     IF now - clients[c].lastSaveTime < Window
     THEN /\ lastOp' = "notification ignored"
          /\ UNCHANGED clients
     ELSE /\ lastOp' = "notification applied"
          /\ clients' = [clients EXCEPT ![c] =
                autosaveEffect([@ EXCEPT !.local = restore(newData.data, clients[c].local),
                                         !.changed = now])]
  /\ UNCHANGED <<pageVars, db, edits, now>>

\* time passes; a timeout that is due fires first
Tick ==
  /\ now < Epoch + MaxTicks * Debounce
  /\ \A c \in DOMAIN clients : \A due \in clients[c].pending : due > now
  /\ now' = now + Debounce
  /\ lastOp' = "tick"
  /\ UNCHANGED <<pageVars, db, edits, clients, inbox>>

\* the single page of the other specifications, not yet loaded
PageIdle ==
  /\ players = <<>>
  /\ gameState = InitialGameState
  /\ selectedPlayer = Null
  /\ loading = TRUE
  /\ dataId = Null
  /\ crashed = FALSE
  /\ nextUid = 1
  /\ ledger = EmptyObject
  /\ edits = 0
  /\ lastOp = "none"
  /\ call = NoCall

(***************************************************************************)
(* PersistSpec: one browser; the load and the saves may fail.              *)
(***************************************************************************)

AddOps == {"addPlayer", "addBenchPitcher", "addBenchCatcher", "addManager"}

PersistEdits ==
  {[op |-> o, name |-> n] : o \in AddOps, n \in {BlankName, ValidName}}
    \cup {[op |-> "updateBattingResult", playerIndex |-> 0, atBatIndex |-> 1,
           result |-> TextSingle],
          [op |-> "advance"]}

PersistInit ==
  /\ PageIdle
  /\ db \in StoredRows
  /\ clients = [c \in {1} |-> FreshClient]
  /\ inbox = [c \in {1} |-> <<>>]
  /\ now = Epoch

PersistNext ==
  \/ \E ok \in BOOLEAN : ClientLoad(1, ok)
  \/ \E e \in PersistEdits : ClientEdit(1, e)
  \/ \E ok \in BOOLEAN : SaveFire(1, ok)
  \/ Deliver(1)
  \/ Tick

PersistSpec == PersistInit /\ [][PersistNext]_vars

(***************************************************************************)
(* SyncSpec: two browsers on the same row; loads and saves go through.     *)
(***************************************************************************)
SyncEdits == {[op |-> "addPlayer", name |-> ValidName], [op |-> "addManager", name |-> ValidName]}

SyncInit ==
  /\ PageIdle
  /\ db = LegacyRow
  /\ clients = [c \in {1, 2} |-> FreshClient]
  /\ inbox = [c \in {1, 2} |-> <<>>]
  /\ now = Epoch

SyncNext ==
  \/ \E c \in {1, 2} : ClientLoad(c, TRUE)
  \/ \E c \in {1, 2}, e \in SyncEdits : ClientEdit(c, e)
  \/ \E c \in {1, 2} : SaveFire(c, TRUE)
  \/ \E c \in {1, 2} : Deliver(c)
  \/ Tick

SyncSpec == SyncInit /\ [][SyncNext]_vars

(***************************************************************************)
(* FrameSpec: one browser on a row written during a game (two players with *)
(* results, a bench pitcher, a manager, second inning); one handler after  *)
(* the other.                                                              *)
(***************************************************************************)
GameRow ==
  [id |-> 1,
   data |->
     [players |-> << [name |-> <<"A">>, pos |-> DefaultPos, face |-> DefaultFace],
                     [name |-> <<"B">>, pos |-> "U6355", face |-> DefaultFace] >>,
      benchPitchers |-> << [name |-> <<"P">>, face |-> DefaultFace] >>,
      benchCatchers |-> <<>>,
      managers |-> << [name |-> <<"M">>, face |-> DefaultFace] >>,
      gameState |->
        [inning |-> 2, isTopHalf |-> FALSE, currentBatterIndex |-> 0,
         battingStats |->
           Put(Put(EmptyObject,
                   0, [hits |-> 1, atBats |-> 1, walks |-> 0, results |-> <<TextSingle>>]),
                   1, [hits |-> 0, atBats |-> 0, walks |-> 1,
                       results |-> <<JsonNull, TextWalk>>])]]]

FrameRows == {0, 1}

FrameEdits ==
  {[op |-> "addPlayer", name |-> ValidName], [op |-> "addBenchPitcher", name |-> ValidName],
   [op |-> "advance"], [op |-> "retreat"]}
    \cup {[op |-> "deletePlayer", index |-> i] : i \in FrameRows}
    \cup {[op |-> "handlePlayerSelect", selectedPlayer |-> i, index |-> j] :
            i \in FrameRows, j \in FrameRows}
    \cup {[op |-> "updateBattingResult", playerIndex |-> i, atBatIndex |-> a, result |-> r] :
            i \in FrameRows, a \in {0, 1}, r \in {TextEmpty, TextSingle}}

\* the rows the handler is called on are rendered: they are rows of the roster
OnRoster(local, e) ==
  /\ e.op = "deletePlayer" => e.index < Len(local.players)
  /\ e.op = "handlePlayerSelect" =>
       e.index < Len(local.players) /\ e.selectedPlayer < Len(local.players)
  /\ e.op = "updateBattingResult" => e.playerIndex < Len(local.players)

FrameInit ==
  /\ PageIdle
  /\ db = GameRow
  /\ clients = [c \in {1} |-> FreshClient]
  /\ inbox = [c \in {1} |-> <<>>]
  /\ now = Epoch

FrameEdit(e) ==
  /\ OnRoster(clients[1].local, e)
  /\ ClientEdit(1, e)

FrameNext ==
  \/ ClientLoad(1, TRUE)
  \/ \E e \in FrameEdits : FrameEdit(e)

FrameSpec == FrameInit /\ [][FrameNext]_vars

(***************************************************************************)
(* Vocabulary of the properties.                                           *)
(***************************************************************************)
Counters(stats) == <<stats.hits, stats.atBats, stats.walks>>

\* normalizeResult tabulated over the texts the specifications enter
KindOf == [text \in LedgerTexts \cup RosterTexts \cup ClassifierTexts |-> normalizeResult(text)]

\* the classification of slot a of a results array ("" for a slot never written)
SlotKind(results, a) ==
  IF ArrayGet(results, a, Undefined) = Undefined THEN ""
  ELSE KindOf[ArrayGet(results, a, Undefined)]

\* the number of slots of a results array classified into `kinds`
CountKinds(results, kinds) ==
  Cardinality({a \in 0..(Len(results) - 1) : SlotKind(results, a) \in kinds})

StatsAt(index) == playerStats(gameState.battingStats, index)

Uids == [k \in 1..Len(players) |-> players[k].uid]

(***************************************************************************)
(* C1.  From a zero BattingStats, after any sequence of updateBattingResult*)
(* calls on slots 0..3 with any text, the stored counters are the values   *)
(* recomputed from the results: hits counts the slots classified hit,      *)
(* double, triple or home run; atBats the non-empty slots classified       *)
(* outside walk, hit-by-pitch, sacrifice bunt and sacrifice fly; walks     *)
(* the slots classified walk or hit-by-pitch.                              *)
(***************************************************************************)
C1_CountersMatchResults ==
  \A i \in DOMAIN gameState.battingStats :
    LET s == gameState.battingStats[i] IN
      /\ s.hits = CountKinds(s.results, {"hit", "2hit", "3hit", "homerun"})
      /\ s.atBats = CountKinds(s.results,
                       Kinds \ {"", "walk", "hbp", "sacrifice_bunt", "sacrifice_fly"})
      /\ s.walks = CountKinds(s.results, {"walk", "hbp"})

C1_Witness ==
  /\ lastOp = "updateBattingResult"
  /\ StatsAt(0).results = <<TextWalk, TextSingle, TextBlank, TextSacFly>>
  /\ Counters(StatsAt(0)) = <<1, 1, 1>>

(***************************************************************************)
(* C2.  Roster/ledger alignment: after any interleaving of add, delete,    *)
(* move/swap and updateBattingResult, the stats stored under roster index  *)
(* i are the stats accumulated by the Player object standing at index i.   *)
(***************************************************************************)
C2_RosterLedgerAligned ==
  \A k \in 1..Len(players) :
    players[k] # UndefinedPlayer => StatsAt(k - 1) = ledger[players[k].uid]

C2_Witness ==
  /\ ~crashed
  /\ dataId = Null
  /\ Len(players) = 2
  /\ Uids = <<3, 2>>
  /\ StatsAt(0).hits = 1
  /\ StatsAt(1).hits = 1
  /\ StatsAt(0) # StatsAt(1)

(***************************************************************************)
(* C3.  A confirmed delete of roster index k leaves every stats entry at   *)
(* an index below k where it was, moves every entry at an index above k    *)
(* down by one with the same content, and leaves no entry for the removed  *)
(* player nor at the old maximum index; the players move the same way.     *)
(***************************************************************************)
C3_RemovalShiftsEntries ==
  [][\A index \in 0..MaxPlayers :
       DeletePlayer(index) =>
         LET old == gameState.battingStats
             new == gameState'.battingStats
             n == Len(players)
         IN /\ Len(players') = n - 1
            /\ \A j \in 0..(index - 1) :
                 /\ players'[j + 1] = players[j + 1]
                 /\ (j \in DOMAIN new) <=> (j \in DOMAIN old)
                 /\ Get(new, j) = Get(old, j)
            /\ \A j \in (index + 1)..(n - 1) :
                 /\ players'[j] = players[j + 1]
                 /\ ((j - 1) \in DOMAIN new) <=> (j \in DOMAIN old)
                 /\ Get(new, j - 1) = Get(old, j)
            /\ \A j \in DOMAIN new : j < n - 1]_vars

C3_Witness ==
  /\ lastOp = "deletePlayer"
  /\ ~crashed
  /\ Uids = <<1, 3>>
  /\ StatsAt(0).hits = 1
  /\ StatsAt(1).hits = 1
  /\ DOMAIN gameState.battingStats = {0, 1}

(***************************************************************************)
(* C4.  A swap of roster positions i and j (movePlayer to a neighbour,     *)
(* handlePlayerSelect on any pair) exchanges the players and the stats     *)
(* entries at i and j in one step and leaves every other index as it was;  *)
(* a move whose target is out of range changes nothing.                    *)
(***************************************************************************)
Exchanged(i, j) ==
  LET old == gameState.battingStats
      new == gameState'.battingStats
  IN /\ Len(players') = Len(players)
     /\ players'[i + 1] = players[j + 1]
     /\ players'[j + 1] = players[i + 1]
     /\ Get(new, i) = Get(old, j)
     /\ Get(new, j) = Get(old, i)
     /\ \A k \in (0..(Len(players) - 1)) \ {i, j} :
          /\ players'[k + 1] = players[k + 1]
          /\ (k \in DOMAIN new) <=> (k \in DOMAIN old)
          /\ Get(new, k) = Get(old, k)

C4_SwapExchangesBoth ==
  [][/\ \A index \in 0..MaxPlayers, direction \in {"up", "down"} :
          MovePlayer(index, direction) =>
            LET newIndex == IF direction = "up" THEN index - 1 ELSE index + 1 IN
            IF newIndex \in 0..(Len(players) - 1)
            THEN Exchanged(index, newIndex)
            ELSE UNCHANGED <<players, gameState>>
     /\ \A index \in 0..MaxPlayers :
          (/\ HandlePlayerSelect(index)
           /\ selectedPlayer \in 0..(Len(players) - 1)
           /\ selectedPlayer # index) => Exchanged(selectedPlayer, index)]_vars

C4_Witness ==
  /\ lastOp = "handlePlayerSelect"
  /\ selectedPlayer = Null
  /\ ~crashed
  /\ Uids = <<3, 2, 1>>
  /\ StatsAt(0).hits = 1
  /\ StatsAt(2).hits = 0
  /\ StatsAt(0) = ledger[3]

(***************************************************************************)
(* C5.  An absent stats entry behaves as an all-zero entry: in particular  *)
(* the team totals computed after a swap of a present entry with an       *)
(* absent one are well-defined and the same as before the swap.            *)
(***************************************************************************)
Present(battingStats, k) == Get(battingStats, k) # UndefinedStats

SwappedPresentWithAbsent(i, j) ==
  /\ i \in 0..(Len(players) - 1)
  /\ j \in 0..(Len(players) - 1)
  /\ Present(gameState.battingStats, i) # Present(gameState.battingStats, j)
  /\ players' = swapPlayers(players, i, j)

C5_AbsentEntryActsAsZero ==
  [][\A index \in 0..MaxPlayers, direction \in {"up", "down"} :
       (/\ MovePlayer(index, direction)
        /\ SwappedPresentWithAbsent(index,
              IF direction = "up" THEN index - 1 ELSE index + 1))
       => /\ getTeamStats(gameState'.battingStats) # TypeError
          /\ getTeamStats(gameState'.battingStats) = getTeamStats(gameState.battingStats)]_vars

(***************************************************************************)
(* C6.  updateBattingResult is idempotent: in every stats object reached   *)
(* from zero, a slot that holds the text t is left with the same hits,     *)
(* atBats, walks and results when t is entered into that slot once more.   *)
(***************************************************************************)
C6_SecondEntryChangesNothing ==
  \A a \in AtBatSlots :
    LET t == ArrayGet(StatsAt(0).results, a, Undefined) IN
      t # Undefined =>
        updateBattingResult(gameState.battingStats, 0, a, t) = gameState.battingStats

C6_Witness ==
  /\ lastOp = "updateBattingResult"
  /\ StatsAt(0).results = <<TextDouble, TextBlank, TextStrikeout>>
  /\ Counters(StatsAt(0)) = <<1, 2, 0>>

(***************************************************************************)
(* C7.  Overwrite in place: an entry into slot a whose old text classifies *)
(* as A and whose new text classifies as B changes the counters by         *)
(* delta(B) - delta(A), so that the counters are those of entering the     *)
(* new text into the emptied slot; from [strikeout, hit] with counters     *)
(* {1, 2, 0}, overwriting slot 0 with a walk gives {1, 1, 1}, batting      *)
(* average 1.000 and on-base percentage 1.000.                             *)
(***************************************************************************)
Delta(kind) ==
  << IF kind \in {"hit", "2hit", "3hit", "homerun"} THEN 1 ELSE 0,
     IF kind \in {"", "walk", "hbp", "sacrifice_bunt", "sacrifice_fly"} THEN 0 ELSE 1,
     IF kind \in {"walk", "hbp"} THEN 1 ELSE 0 >>

Shift(counters, delta, multiplier) ==
  [k \in 1..3 |-> counters[k] + multiplier * delta[k]]

\* the step wrote slot a of player 0 and no other slot
WroteSlot(a) ==
  /\ lastOp' = "updateBattingResult"
  /\ ArrayGet(StatsAt(0)'.results, a, Undefined) # Undefined
  /\ \A b \in AtBatSlots \ {a} :
       ArrayGet(StatsAt(0)'.results, b, Undefined) = ArrayGet(StatsAt(0).results, b, Undefined)

C7_OverwriteInPlace ==
  [][\A a \in AtBatSlots :
       WroteSlot(a) =>
         LET old == StatsAt(0)
             new == StatsAt(0)'
             text == ArrayGet(new.results, a, Undefined)
             emptied == updateBattingResult(gameState.battingStats, 0, a, TextEmpty)
         IN /\ Counters(new) =
                 Shift(Shift(Counters(old), Delta(SlotKind(old.results, a)), -1),
                       Delta(SlotKind(new.results, a)), 1)
            /\ Counters(new) = Counters(updateBattingResult(emptied, 0, a, text)[0])
            /\ (/\ old.results = <<TextStrikeout, TextSingle>>
                 /\ a = 0
                 /\ text = TextWalk)
                => /\ Counters(new) = <<1, 1, 1>>
                   /\ playerAvg(new) = <<"1", ".", "0", "0", "0">>
                   /\ getTeamStats(gameState'.battingStats).obp = <<"1", ".", "0", "0", "0">>]_vars

C7_Witness ==
  /\ lastOp = "updateBattingResult"
  /\ StatsAt(0).results = <<TextWalk, TextSingle>>
  /\ Counters(StatsAt(0)) = <<1, 1, 1>>
  /\ playerAvg(StatsAt(0)) = <<"1", ".", "0", "0", "0">>

(***************************************************************************)
(* C8.  A freshly added player at index 0 with the strikeout text in slot  *)
(* 0, the single text in slot 1 and slots 2 and 3 empty, whatever the      *)
(* order of entry, has hits 1, atBats 2, walks 0 and average 0.500.        *)
(***************************************************************************)
C8_StrikeoutThenSingle ==
  (/\ ArrayGet(StatsAt(0).results, 0, Undefined) = TextStrikeout
   /\ ArrayGet(StatsAt(0).results, 1, Undefined) = TextSingle
   /\ \A a \in {2, 3} : ArrayGet(StatsAt(0).results, a, Undefined) \in {Undefined, TextEmpty})
  => /\ Counters(StatsAt(0)) = <<1, 2, 0>>
     /\ playerAvg(StatsAt(0)) = <<"0", ".", "5", "0", "0">>

C8_Witness ==
  /\ lastOp = "updateBattingResult"
  /\ StatsAt(0).results = <<TextStrikeout, TextSingle>>
  /\ StatsAt(0).atBats = 2
  /\ playerAvg(StatsAt(0)) = <<"0", ".", "5", "0", "0">>

(***************************************************************************)
(* C9.  Counter deltas of one classified outcome: walk, hit-by-pitch,      *)
(* sacrifice bunt and sacrifice fly add 0 to atBats, every other non-empty *)
(* outcome adds 1; exactly the four hit kinds add 1 to hits; exactly walk  *)
(* and hit-by-pitch add 1 to walks; an empty or whitespace-only text adds  *)
(* nothing, as the new text and as the old text that is undone.            *)
(***************************************************************************)
Blank(text) == text = Undefined \/ trim(text) = <<>>

C9_CounterDeltaRule ==
  /\ call.fn = "updateStatsForResult" =>
       /\ Counters(call.result) =
            Shift(Counters(call.stats), Delta(call.kind), call.multiplier)
       /\ call.result.results = call.stats.results
  /\ call.fn = "updateBattingResult" =>
       LET oldText == ArrayGet(call.stats.results, call.atBatIndex, Undefined) IN
       /\ Blank(call.text) /\ Blank(oldText) =>
            Counters(call.result) = Counters(call.stats)
       /\ Blank(call.text) /\ ~Blank(oldText) =>
            Counters(call.result) =
              Shift(Counters(call.stats), Delta(normalizeResult(oldText)), -1)
       /\ ~Blank(call.text) /\ Blank(oldText) =>
            Counters(call.result) =
              Shift(Counters(call.stats), Delta(normalizeResult(call.text)), 1)

C9_Witness ==
  /\ call.fn = "updateStatsForResult"
  /\ call.kind = "sacrifice_fly"
  /\ call.multiplier = 1
  /\ call.stats.atBats = 1
  /\ Counters(call.result) = Counters(call.stats)

(***************************************************************************)
(* C10.  The classifier returns the first matching category in the order   *)
(* double, triple, home run, hit, strikeout, walk, hit-by-pitch, sacrifice *)
(* fly, sacrifice bunt, grounder, fly, error, custom: a text with a        *)
(* double, triple or home-run token and a generic hit token is classified  *)
(* double, triple or home run, and a text with a sacrifice-fly token is    *)
(* classified sacrifice fly rather than fly.                               *)
(***************************************************************************)
HasToken(t, tokens, words) ==
  (\E token \in tokens : includes(t, token)) \/ t \in words

PriorityOrder ==
  << [kind |-> "2hit", tokens |-> {<<"U4E8C", "U5841", "U6253">>}, words |-> {<<"2", "b">>}],
     [kind |-> "3hit", tokens |-> {<<"U4E09", "U5841", "U6253">>}, words |-> {<<"3", "b">>}],
     [kind |-> "homerun",
      tokens |-> {<<"U672C", "U5841", "U6253">>, <<"U30DB", "U30FC", "U30E0", "U30E9", "U30F3">>},
      words |-> {<<"h", "r">>}],
     [kind |-> "hit", tokens |-> {<<"U5B89">>, <<"U30D2", "U30C3", "U30C8">>},
      words |-> {<<"h">>}],
     [kind |-> "strikeout", tokens |-> {<<"U4E09", "U632F">>}, words |-> {<<"k">>}],
     [kind |-> "walk", tokens |-> {<<"U56DB", "U7403">>}, words |-> {<<"b", "b">>}],
     [kind |-> "hbp", tokens |-> {<<"U6B7B", "U7403">>}, words |-> {<<"h", "b", "p">>}],
     [kind |-> "sacrifice_fly", tokens |-> {<<"U72A0", "U98DB">>}, words |-> {<<"s", "f">>}],
     [kind |-> "sacrifice_bunt", tokens |-> {<<"U72A0", "U6253">>}, words |-> {<<"s", "h">>}],
     [kind |-> "grounder", tokens |-> {<<"U30B4", "U30ED">>}, words |-> {}],
     [kind |-> "fly", tokens |-> {<<"U30D5", "U30E9", "U30A4">>, <<"U98DB">>}, words |-> {}],
     [kind |-> "error", tokens |-> {<<"U30A8", "U30E9", "U30FC">>, <<"U5931">>}, words |-> {}] >>

FirstMatch(text) ==
  LET t == trim(toLowerCase(text))
      matching == {k \in 1..Len(PriorityOrder) :
                     HasToken(t, PriorityOrder[k].tokens, PriorityOrder[k].words)}
  IN IF t = <<>> THEN ""
     ELSE IF matching = {} THEN "custom"
     ELSE PriorityOrder[CHOOSE k \in matching : \A m \in matching : k <= m].kind

C10_ClassifierPriority ==
  call.fn = "normalizeResult" => call.result = FirstMatch(call.text)

(***************************************************************************)
(* C11.  getTeamStats returns the sums of hits, atBats and walks over all  *)
(* stats entries; avg is the sentinel exactly when the total atBats is 0   *)
(* and otherwise hits/atBats to three decimals; obp is the sentinel        *)
(* exactly when atBats + walks is 0 and otherwise (hits + walks) /         *)
(* (atBats + walks) to three decimals; the empty mapping gives             *)
(* {0, 0, 0, sentinel, sentinel}.                                          *)
(***************************************************************************)
Sentinel == <<".", "-", "-", "-">>

RECURSIVE RosterTotal(_, _)
RosterTotal(n, field) ==
  IF n = 0 THEN 0 ELSE StatsAt(n - 1)[field] + RosterTotal(n - 1, field)

DigitValue(c) ==
  CASE c = "0" -> 0 [] c = "1" -> 1 [] c = "2" -> 2 [] c = "3" -> 3 [] c = "4" -> 4
    [] c = "5" -> 5 [] c = "6" -> 6 [] c = "7" -> 7 [] c = "8" -> 8 [] c = "9" -> 9

\* text is d.ddd and is a multiple of 0.001 nearest to num / den
ThreeDecimals(text, num, den) ==
  /\ Len(text) = 5
  /\ text[2] = "."
  /\ LET n == 1000 * DigitValue(text[1]) + 100 * DigitValue(text[3])
               + 10 * DigitValue(text[4]) + DigitValue(text[5])
         twice == 2 * (1000 * num - n * den)
     IN twice <= den /\ twice >= -den

C11_TeamTotals ==
  LET team == getTeamStats(gameState.battingStats)
      n == Len(players)
      h == RosterTotal(n, "hits")
      ab == RosterTotal(n, "atBats")
      w == RosterTotal(n, "walks")
  IN /\ team # TypeError
     /\ team.totalHits = h /\ team.totalAtBats = ab /\ team.totalWalks = w
     /\ (team.avg = Sentinel) <=> (ab = 0)
     /\ ab # 0 => ThreeDecimals(team.avg, h, ab)
     /\ (team.obp = Sentinel) <=> (ab + w = 0)
     /\ ab + w # 0 => ThreeDecimals(team.obp, h + w, ab + w)
     /\ gameState.battingStats = EmptyObject =>
          team = [totalHits |-> 0, totalAtBats |-> 0, totalWalks |-> 0,
                  avg |-> Sentinel, obp |-> Sentinel]

C11_Witness ==
  /\ Len(players) = 2
  /\ StatsAt(0).hits = 1
  /\ StatsAt(1).hits = 0
  /\ getTeamStats(gameState.battingStats) =
       [totalHits |-> 1, totalAtBats |-> 3, totalWalks |-> 1,
        avg |-> <<"0", ".", "3", "3", "3">>, obp |-> <<"0", ".", "5", "0", "0">>]

(***************************************************************************)
(* C12.  Advance of the inning cursor: from (n, top) the next cursor is    *)
(* (n, bottom), from (n, bottom) it is (n + 1, top), for every n >= 1;     *)
(* (3, bottom) advances to (4, top).                                       *)
(***************************************************************************)
Cursor(gs) == <<gs.inning, gs.isTopHalf>>

C12_AdvanceCursor ==
  [][AdvanceInning =>
       /\ gameState.isTopHalf => Cursor(gameState') = <<gameState.inning, FALSE>>
       /\ ~gameState.isTopHalf => Cursor(gameState') = <<gameState.inning + 1, TRUE>>
       /\ Cursor(gameState) = <<3, FALSE>> => Cursor(gameState') = <<4, TRUE>>
       /\ gameState'.battingStats = gameState.battingStats]_vars

C12_Witness ==
  /\ lastOp = "advanceInning"
  /\ Cursor(gameState) = <<4, TRUE>>
  /\ StatsAt(0).hits = 1

(***************************************************************************)
(* C13.  Retreat of the inning cursor: for every n >= 1, retreat from      *)
(* (n, bottom) gives (n, top); for every n > 1, retreat from (n, top)      *)
(* gives (n - 1, bottom).                                                  *)
(***************************************************************************)
C13_RetreatCursor ==
  [][RetreatInning =>
       /\ ~gameState.isTopHalf => Cursor(gameState') = <<gameState.inning, TRUE>>
       /\ (gameState.isTopHalf /\ gameState.inning > 1)
            => Cursor(gameState') = <<gameState.inning - 1, FALSE>>]_vars

(***************************************************************************)
(* C14.  Inning floor: in every state reached from (1, top) by advance,    *)
(* retreat and reset the inning is at least 1, and a retreat at (1, top)   *)
(* leaves the whole game state as it was.                                  *)
(***************************************************************************)
C14_InningFloor ==
  /\ [](gameState.inning >= 1)
  /\ [][(RetreatInning /\ Cursor(gameState) = <<1, TRUE>>) => UNCHANGED gameState]_vars

C14_Witness ==
  /\ lastOp = "retreatInning"
  /\ Cursor(gameState) = <<1, TRUE>>
  /\ StatsAt(0).walks = 1

(***************************************************************************)
(* C19.  No fatal state: no sequence of user operations from a loaded or   *)
(* initial state reaches a state in which an operation or the              *)
(* recomputation of the per-player and team statistics dereferences a      *)
(* missing player or a missing stats entry; the page stays operable.       *)
(***************************************************************************)
C19_NoFatalState ==
  /\ ~crashed
  /\ \A k \in 1..Len(players) : players[k] # UndefinedPlayer
  /\ getTeamStats(gameState.battingStats) # TypeError

(***************************************************************************)
(* C15.  Synchronization guard: a change notification received less than   *)
(* 2000 ms after the browser's last local save leaves its whole state      *)
(* unchanged; otherwise players, benchPitchers, benchCatchers, managers    *)
(* and gameState are all replaced by the values of the incoming snapshot;  *)
(* either way the payload is consumed, so a dropped write is not applied   *)
(* later.                                                                  *)
(***************************************************************************)
Components == {"players", "benchPitchers", "benchCatchers", "managers", "gameState"}

C15_SynchronizationGuard ==
  [][\A c \in {1, 2} :
       Deliver(c) =>
         LET snapshot == Head(inbox[c]).data IN
         /\ now - clients[c].lastSaveTime < 2000 => clients'[c] = clients[c]
         /\ now - clients[c].lastSaveTime >= 2000 =>
              \A f \in Components : clients'[c].local[f] = snapshot[f]
         /\ inbox'[c] = Tail(inbox[c])
         /\ \A k \in {1, 2} \ {c} : clients'[k] = clients[k] /\ inbox'[k] = inbox[k]]_vars

\* browser 1 has just ignored the write of browser 2, which the row holds
C15_Witness ==
  /\ lastOp = "notification ignored"
  /\ inbox[1] = <<>>
  /\ clients[1].lastSaveTime > 0
  /\ clients[2].local = restore(db.data, EmptyAggregate)
  /\ clients[1].local # clients[2].local

(***************************************************************************)
(* C16.  Convergence: with two browsers on the one row, once the edits     *)
(* have stopped and every pending autosave and every change notification   *)
(* has been delivered, the state of both browsers equals the row.          *)
(***************************************************************************)
Quiescent ==
  \A c \in DOMAIN clients :
    ~clients[c].loading /\ clients[c].timer = Null /\ inbox[c] = <<>>

C16_ClientsConverge ==
  Quiescent => \A c \in DOMAIN clients : clients[c].local = restore(db.data, EmptyAggregate)

(***************************************************************************)
(* C17.  Persistence errors: after a failed load or a failed save the      *)
(* page stays editable and every change the user makes afterwards leads to *)
(* a save attempt 1000 ms after the edits stop: while a change is not yet  *)
(* taken up by a save, the autosave timer is pending and due within        *)
(* 1000 ms.                                                                *)
(***************************************************************************)
C17_ChangeLeadsToSave ==
  \A c \in DOMAIN clients :
    (~clients[c].loading /\ clients[c].unsaved) =>
      /\ clients[c].timer # Null
      /\ clients[c].timer <= now + 1000

(***************************************************************************)
(* C18.  Validation on add: addPlayer, addBenchPitcher, addBenchCatcher    *)
(* and addManager with an empty or whitespace-only name leave players,     *)
(* the bench lists, the managers and gameState unchanged.                  *)
(***************************************************************************)
OnlyWhiteSpace(name) == \A k \in 1..Len(name) : name[k] \in {" ", "\t", "\n", "U3000"}

C18_BlankNameAborts ==
  [][\A e \in PersistEdits :
       (/\ ClientEdit(1, e)
        /\ e.op \in {"addPlayer", "addBenchPitcher", "addBenchCatcher", "addManager"}
        /\ OnlyWhiteSpace(e.name))
       => clients' = clients]_vars

C18_Witness ==
  /\ lastOp = "addManager"
  /\ edits = 2
  /\ clients[1].local.managers = <<>>
  /\ Len(clients[1].local.benchCatchers) = 1

(***************************************************************************)
(* C20.  Save/load round trip: a successful save writes the aggregate      *)
(* {players, benchPitchers, benchCatchers, managers, gameState} of the     *)
(* page as the row, and a load right after it gives back all five          *)
(* components unchanged.                                                   *)
(***************************************************************************)
C20_RoundTripExact ==
  [][SaveFire(1, TRUE) => restore(db'.data, EmptyAggregate) = clients[1].local]_vars

\* as amended: unchanged but for the result slots never written, which come back as null
SameSlot(x, y) == x = y \/ {x, y} \subseteq {Undefined, JsonNull}

SameStats(a, b) ==
  /\ Counters(a) = Counters(b)
  /\ Len(a.results) = Len(b.results)
  /\ \A k \in 1..Len(a.results) : SameSlot(a.results[k], b.results[k])

SameAggregate(a, b) ==
  /\ \A f \in Components \ {"gameState"} : a[f] = b[f]
  /\ Cursor(a.gameState) = Cursor(b.gameState)
  /\ a.gameState.currentBatterIndex = b.gameState.currentBatterIndex
  /\ DOMAIN a.gameState.battingStats = DOMAIN b.gameState.battingStats
  /\ \A k \in DOMAIN a.gameState.battingStats :
       SameStats(a.gameState.battingStats[k], b.gameState.battingStats[k])

C20_RoundTrip ==
  [][SaveFire(1, TRUE) =>
       /\ db'.id = clients[1].dataId
       /\ DOMAIN db'.data = Components
       /\ SameAggregate(restore(db'.data, EmptyAggregate), clients[1].local)]_vars

C20_Witness ==
  /\ lastOp = "saveData"
  /\ Len(clients[1].local.managers) = 1
  /\ db.data.managers = clients[1].local.managers
  /\ playerStats(db.data.gameState.battingStats, 0).results = <<JsonNull, TextSingle>>
  /\ playerStats(clients[1].local.gameState.battingStats, 0).results = <<Undefined, TextSingle>>

(***************************************************************************)
(* C27.  Retreat undoes advance: for every cursor (n, half) with n >= 1,   *)
(* the retreat button pressed right after the advance button gives the     *)
(* cursor the advance started from; (1, top) is reached again by a retreat *)
(* after one advance.                                                      *)
(***************************************************************************)
C27_RetreatUndoesAdvance ==
  [][AdvanceInning => Cursor(retreat(gameState')) = Cursor(gameState)]_vars

(***************************************************************************)
(* C22.  addPlayer with a name that is not blank, on a roster of length n: *)
(* exactly one player is appended, at index n; the stats entry of index n  *)
(* is {hits: 0, atBats: 0, walks: 0, results: []}; the players and the     *)
(* stats entries of every index below n, the bench lists and the inning    *)
(* cursor are as before.                                                   *)
(***************************************************************************)
C22_AddPlayerFrame ==
  [][\A e \in PersistEdits :
       (e.op = "addPlayer" /\ ~OnlyWhiteSpace(e.name) /\ ClientEdit(1, e)) =>
         LET old == clients[1].local
             new == clients'[1].local
             n == Len(old.players)
         IN /\ Len(new.players) = n + 1
            /\ new.players[n + 1].name = <<"C">>
            /\ \A k \in 1..n : new.players[k] = old.players[k]
            /\ n \in DOMAIN new.gameState.battingStats
            /\ new.gameState.battingStats[n] =
                 [hits |-> 0, atBats |-> 0, walks |-> 0, results |-> <<>>]
            /\ \A k \in 0..(n - 1) :
                 /\ k \in DOMAIN new.gameState.battingStats
                      <=> k \in DOMAIN old.gameState.battingStats
                 /\ Get(new.gameState.battingStats, k) = Get(old.gameState.battingStats, k)
            /\ new.benchPitchers = old.benchPitchers
            /\ new.benchCatchers = old.benchCatchers
            /\ Cursor(new.gameState) = Cursor(old.gameState)]_vars

C22_Witness ==
  /\ lastOp = "addPlayer"
  /\ Len(clients[1].local.players) = 3
  /\ clients[1].local.players[3].name = <<"C">>
  /\ playerStats(clients[1].local.gameState.battingStats, 0).hits = 1
  /\ Get(clients[1].local.gameState.battingStats, 2) = ZeroStats

(***************************************************************************)
(* C23.  Counter floor: after every updateBattingResult hits, atBats and   *)
(* walks are at least 0, whatever the stats object it starts from: also    *)
(* one of a persisted row whose counters are smaller than its results      *)
(* imply, where taking the old result back drives a counter below 0.       *)
(***************************************************************************)
C23_CounterFloor ==
  call.fn = "updateBattingResult" =>
    /\ call.result.hits >= 0
    /\ call.result.atBats >= 0
    /\ call.result.walks >= 0

C23_Witness ==
  /\ call.fn = "updateBattingResult"
  /\ call.stats = [hits |-> 0, atBats |-> 0, walks |-> 0, results |-> <<TextStrikeout>>]
  /\ call.atBatIndex = 0
  /\ call.text = TextWalk
  /\ call.result = [hits |-> 0, atBats |-> 0, walks |-> 1, results |-> <<TextWalk>>]

(***************************************************************************)
(* C24.  Independence of the components: advance and retreat leave the     *)
(* players, the bench lists, battingStats and currentBatterIndex as they   *)
(* were; updateBattingResult on player p, slot s leaves the inning cursor, *)
(* the roster, the stats of every other player and every other slot of the *)
(* results of p as they were; adding, deleting and swapping players leave  *)
(* inning and isTopHalf as they were.                                      *)
(***************************************************************************)
SlotOf(battingStats, p, a) == ArrayGet(playerStats(battingStats, p).results, a, Undefined)

C24_Independence ==
  [][\A e \in FrameEdits : FrameEdit(e) =>
       LET old == clients[1].local
           new == clients'[1].local
       IN /\ e.op \in {"advance", "retreat"} =>
               /\ new.players = old.players
               /\ new.benchPitchers = old.benchPitchers
               /\ new.benchCatchers = old.benchCatchers
               /\ new.gameState.battingStats = old.gameState.battingStats
               /\ new.gameState.currentBatterIndex = old.gameState.currentBatterIndex
          /\ e.op = "updateBattingResult" =>
               /\ Cursor(new.gameState) = Cursor(old.gameState)
               /\ new.players = old.players
               /\ \A q \in (DOMAIN old.gameState.battingStats
                              \cup DOMAIN new.gameState.battingStats) \ {e.playerIndex} :
                    /\ q \in DOMAIN old.gameState.battingStats
                    /\ q \in DOMAIN new.gameState.battingStats
                    /\ new.gameState.battingStats[q] = old.gameState.battingStats[q]
               /\ \A a \in AtBatSlots \ {e.atBatIndex} :
                    SlotOf(new.gameState.battingStats, e.playerIndex, a)
                      = SlotOf(old.gameState.battingStats, e.playerIndex, a)
          /\ e.op \in {"addPlayer", "deletePlayer", "handlePlayerSelect"} =>
               Cursor(new.gameState) = Cursor(old.gameState)]_vars

C24_Witness ==
  /\ lastOp = "advance"
  /\ edits = 2
  /\ Cursor(clients[1].local.gameState) = <<3, TRUE>>
  /\ Len(clients[1].local.players) = 2
  /\ Len(clients[1].local.benchPitchers) = 1
  /\ playerStats(clients[1].local.gameState.battingStats, 1).results = <<TextSingle, TextWalk>>

(***************************************************************************)
(* C28.  For every player, in every state reached from the empty page by   *)
(* updateBattingResult on the slots 0..3 and by roster operations:         *)
(* hits <= atBats, and atBats + walks <= the number of result slots that   *)
(* are not empty, which is at most 4; so no batting average and no         *)
(* on-base percentage shown is above 1.000.                                *)
(***************************************************************************)
FilledSlots(stats) == {a \in 1..Len(stats.results) : Truthy(stats.results[a])}

AtMostOne(text) ==
  \/ text = <<".", "-", "-", "-">>
  \/ text = <<"1", ".", "0", "0", "0">>
  \/ Len(text) = 5 /\ text[1] = "0" /\ text[2] = "."

C28_AverageAtMostOne ==
  /\ \A k \in (DOMAIN gameState.battingStats) \cup (0..(Len(players) - 1)) :
       LET stats == playerStats(gameState.battingStats, k) IN
       /\ stats.hits <= stats.atBats
       /\ stats.atBats + stats.walks <= Cardinality(FilledSlots(stats))
       /\ Cardinality(FilledSlots(stats)) <= 4
       /\ AtMostOne(playerAvg(stats))
  /\ ~teamStatsThrows(gameState.battingStats) =>
       /\ AtMostOne(getTeamStats(gameState.battingStats).avg)
       /\ AtMostOne(getTeamStats(gameState.battingStats).obp)

C28_Witness ==
  /\ lastOp = "handlePlayerSelect"
  /\ Len(players) = 2
  /\ StatsAt(0).results = <<TextSingle>>
  /\ StatsAt(1).results = <<TextWalk, TextWalk, TextStrikeout, TextSingle>>
  /\ Counters(StatsAt(1)) = <<1, 2, 2>>
  /\ playerAvg(StatsAt(1)) = <<"0", ".", "5", "0", "0">>

(***************************************************************************)
(* C25.  Dense keys: from the empty page, after any sequence of addPlayer, *)
(* deletePlayer, move or swap, updateBattingResult on a roster index,      *)
(* resetGame and clearAll, the keys of battingStats are exactly            *)
(* 0 .. players.length - 1 and every key holds a stats record.             *)
(***************************************************************************)
C25_DenseKeys ==
  /\ DOMAIN gameState.battingStats = 0..(Len(players) - 1)
  /\ \A k \in DOMAIN gameState.battingStats : gameState.battingStats[k] # UndefinedStats

(***************************************************************************)
(* C26.  Click-to-swap keeps the roster a permutation: in every reachable  *)
(* state a pending selection index refers to an existing element of its    *)
(* list, so completing the swap neither changes the length of the list nor *)
(* puts an undefined element into it; also when a delete shrinks the list  *)
(* between the first and the second click.                                 *)
(***************************************************************************)
C26_SwapKeepsRoster ==
  [][\A index \in 0..MaxPlayers :
       (HandlePlayerSelect(index) /\ selectedPlayer # Null) =>
         /\ selectedPlayer \in 0..(Len(players) - 1)
         /\ Len(players') = Len(players)
         /\ \A k \in 1..Len(players') : players'[k] # UndefinedPlayer
         /\ {players'[k] : k \in 1..Len(players')} = {players[k] : k \in 1..Len(players)}]_vars

(***************************************************************************)
(* C29.  Team totals match the roster: in every reachable state (after any *)
(* sequence of add, delete, swap, updateBattingResult, load) the team      *)
(* hits, atBats and walks the aggregation returns are the sums of the      *)
(* counters shown for the roster indices 0 .. players.length - 1; no stats *)
(* entry of no current player is counted.                                  *)
(***************************************************************************)
C29_TotalsMatchRoster ==
  LET teamStats == getTeamStats(gameState.battingStats) IN
  /\ teamStats # TypeError
  /\ teamStats.totalHits = RosterTotal(Len(players), "hits")
  /\ teamStats.totalAtBats = RosterTotal(Len(players), "atBats")
  /\ teamStats.totalWalks = RosterTotal(Len(players), "walks")
  /\ DOMAIN gameState.battingStats \subseteq 0..(Len(players) - 1)

(***************************************************************************)
(* C21.  Debounced autosave: once the load has completed, a save is issued *)
(* only when 1000 ms have passed since the latest change of players, the   *)
(* bench lists, the managers or gameState; each new change cancels the     *)
(* pending timer and starts a new one, so at most one timer is pending and *)
(* a burst of edits gives exactly one save, whose payload is the local     *)
(* state after the last edit of the burst.                                 *)
(***************************************************************************)
C21_DebouncedAutosave ==
  /\ [](\A c \in DOMAIN clients : Cardinality(clients[c].pending) <= 1)
  /\ [][\A ok \in BOOLEAN : SaveFire(1, ok) =>
          /\ ~clients[1].loading
          /\ now - clients[1].changed >= 1000
          /\ clients'[1].pending = {}
          /\ (ok /\ clients[1].dataId # Null) =>
               /\ db'.data = orderDataOf(clients[1].local)
               /\ clients'[1].saves = clients[1].saves + 1]_vars
  /\ [][\A e \in PersistEdits :
          (ClientEdit(1, e) /\ clients'[1].local # clients[1].local
             /\ clients[1].dataId # Null) =>
            clients'[1].pending = {now + 1000}]_vars

C21_Witness ==
  /\ lastOp = "saveData"
  /\ edits = 2
  /\ now = Epoch + 3000
  /\ clients[1].changed = Epoch + 2000
  /\ clients[1].saves = 1
  /\ Len(clients[1].local.players) = 3
  /\ Len(clients[1].local.managers) = 1
  /\ db.data = orderDataOf(clients[1].local)

(***************************************************************************)
(* C30.  No write without a local edit: the replacement of the local state *)
(* by the initial load or by an applied change notification does not by    *)
(* itself make the browser save; a browser saves only after an edit of its *)
(* user, so that with two browsers a single edit leads to finitely many    *)
(* saves.                                                                  *)
(***************************************************************************)
C30_NoWriteWithoutEdit ==
  [][\A c \in DOMAIN clients : SaveFire(c, TRUE) => edits > 0]_vars

====
